---- MODULE Spec2Model ----
(***************************************************************************)
(* A model of the QUIC interop runner: InteropRunner (interop.py) and the  *)
(* command-line front end that builds it (run.py).                         *)
(*                                                                         *)
(* Two specifications live in this module.                                 *)
(*   SpecRunTest  one invocation of InteropRunner._run_test: Init draws    *)
(*                what the environment does (the compose output, whether   *)
(*                the timeout expires, how long the stop takes, what       *)
(*                check() yields), the action applies _run_test.           *)
(*   Spec         InteropRunner.run() for every command line of the        *)
(*                bounded catalogue: the pair loop, the matrix writes,     *)
(*                post-processing, printing, export.                       *)
(*                                                                         *)
(* Text is modelled as sequences of tokens: a line of the compose output   *)
(* is a sequence of tokens, a substring test is a test for a contiguous    *)
(* sub-sequence.                                                           *)
(***************************************************************************)
EXTENDS Integers, Sequences, FiniteSets, TLC

(***************************************************************************)
(* Bounds of the model.                                                    *)
(***************************************************************************)
\* longest compose output, in lines
MaxLines == 2

\* longest -c and -s list of a command line
MaxNames == 2

\* longest -t list of a command line
MaxTests == 2

\* most matrix cells a command line may ask run() to fill: pairs times
\* (tests plus measurements)
MaxWrites == 4

(***************************************************************************)
(* result.py: TestResult                                                   *)
(***************************************************************************)
SUCCEEDED == "succeeded"

FAILED == "failed"

UNSUPPORTED == "unsupported"

TestResult == {SUCCEEDED, FAILED, UNSUPPORTED}

(***************************************************************************)
(* Text                                                                    *)
(***************************************************************************)
\* needle in hay: hay has a contiguous sub-sequence equal to needle
Contains(hay, needle) ==
    \E k \in 1..(Len(hay) - Len(needle) + 1) :
        SubSeq(hay, k, k + Len(needle) - 1) = needle

\* str(line) of a bytes line: b'...'
Str(line) == <<"b'">> \o line \o <<"'">>

\* the lines the container group can print (the catalogue the outputs are drawn from)
Lines ==
    { <<"client", " ", "exited with code ", "0">>,
      <<"client", "_1", " ", "exited with code ", "0">>,
      <<"client", "-1", " ", "exited with code ", "0">>,
      <<"server", " ", "exited with code ", "0">>,
      <<"client", " ", "exited with code ", "1">>,
      <<"client", "_1", " ", "exited with code ", "127">>,
      <<"sim", " ", "exit status ", "127">> }

\* outputs of at most MaxLines lines (bytes.splitlines() of the captured output)
Outputs == UNION { [1..n -> Lines] : n \in 0..MaxLines }

(***************************************************************************)
(* InteropRunner._is_unsupported                                           *)
(***************************************************************************)
MarkerCode127 == <<"exited with code ", "127">>

MarkerStatus127 == <<"exit status ", "127">>

_is_unsupported(lines) ==
    \/ \E k \in 1..Len(lines) : Contains(Str(lines[k]), MarkerCode127)
    \/ \E k \in 1..Len(lines) : Contains(Str(lines[k]), MarkerStatus127)

\* interop.py line 566: the literal the classification looks for
MarkerClientZero == <<"client", " ", "exited with code ", "0">>

ClientExitedZero(lines) ==
    \E k \in 1..Len(lines) : Contains(Str(lines[k]), MarkerClientZero)

(***************************************************************************)
(* InteropRunner._run_test                                                 *)
(*                                                                         *)
(* What the environment does during one invocation:                        *)
(*   cert            cert.pem is found in the certs directory              *)
(*   expired         the container group outlives testcase.timeout()       *)
(*   captured        the output is bytes; FALSE when it is the None of a   *)
(*                   TimeoutExpired raised before any output was read      *)
(*   output          the captured output, as lines                         *)
(*   stop_overrun    the compose stop takes more than its 60 s             *)
(*   check           what testcase.check() yields when it is called        *)
(*   log_dir_exists  the log directory of this (server, client, test) is   *)
(*                   already in the log tree                               *)
(***************************************************************************)
NoException == "none"

\* a verdict, or the exception check() raises
CheckOutcomes == TestResult \cup {"FileNotFoundError", "Exception"}

RunTestInputs ==
    { inp \in [cert : BOOLEAN, expired : BOOLEAN, captured : BOOLEAN,
               output : Outputs, stop_overrun : BOOLEAN, check : CheckOutcomes,
               log_dir_exists : BOOLEAN] :
        ~inp.captured => (inp.expired /\ inp.output = <<>>) }

\* lines 562-566: check() is called
CallsCheck(expired, lines) ==
    /\ ~expired
    /\ ~_is_unsupported(lines)
    /\ ClientExitedZero(lines)

\* Classify with the client's exit looked at before the 127 markers
Classify_ExitBeforeMarker(expired, lines, check) ==
    IF expired THEN FAILED
    ELSE IF ClientExitedZero(lines)
         THEN (IF check \in TestResult THEN check ELSE FAILED)
    ELSE IF _is_unsupported(lines) THEN UNSUPPORTED
    ELSE FAILED

\* Classify with the 127 markers looked at whether or not the run timed out
Classify_MarkerBeforeTimeout(expired, lines, check) ==
    IF _is_unsupported(lines) THEN UNSUPPORTED
    ELSE IF expired THEN FAILED
    ELSE IF ClientExitedZero(lines)
         THEN (IF check \in TestResult THEN check ELSE FAILED)
    ELSE FAILED

\* Classify with the result of check() used whether or not the client exited
\* with code 0
Classify_CheckAlways(expired, lines, check) ==
    IF expired THEN FAILED
    ELSE IF _is_unsupported(lines) THEN UNSUPPORTED
    ELSE IF check \in TestResult THEN check
    ELSE FAILED

\* lines 522 and 562-571: the status of the run
Classify(expired, lines, check) ==
    IF expired THEN FAILED
    ELSE IF _is_unsupported(lines) THEN UNSUPPORTED
    ELSE IF ClientExitedZero(lines)
         THEN (IF check \in TestResult THEN check ELSE FAILED)
    ELSE FAILED

\* line 576: the logs are copied into the log tree
Promotes(status) == status = FAILED \/ status = SUCCEEDED

\* what one invocation did: the status it holds when it ends, the exception that
\* escapes it (NoException when it returns), and the steps it took, in order
RunTestResult(st, exc, evs) ==
    [status |-> st, raised |-> exc, events |-> evs]

\* _run_test with check() called on the output before the logs are collected
_run_test_CheckBeforeCopy(inp) ==
    LET setup   == <<"addHandler">>
        up      == setup \o <<"up">>
        stopped == IF inp.expired THEN up \o <<"stop">> ELSE up
        calls   == CallsCheck(inp.expired, inp.output)
        checked == IF calls THEN stopped \o <<"check">> ELSE stopped
        copied  == checked \o <<"copy_sim", "copy_client", "copy_server">>
        status  == Classify(inp.expired, inp.output, inp.check)
        saved   == copied \o <<"removeHandler">>
    IN  IF ~inp.cert
          THEN RunTestResult(FAILED, NoException, setup \o <<"return">>)
        ELSE IF ~inp.captured
          THEN RunTestResult(FAILED, "AttributeError", up)
        ELSE IF inp.expired /\ inp.stop_overrun
          THEN RunTestResult(FAILED, "TimeoutExpired", stopped)
        ELSE IF calls /\ inp.check = "Exception"
          THEN RunTestResult(FAILED, "Exception", checked)
        ELSE IF Promotes(status) /\ inp.log_dir_exists
          THEN RunTestResult(status, "FileExistsError", saved)
        ELSE RunTestResult(status, NoException,
                 saved \o (IF Promotes(status) THEN <<"promote">> ELSE <<>>)
                       \o <<"cleanup", "return">>)

_run_test(inp) ==
    LET setup   == <<"addHandler">>
        up      == setup \o <<"up">>
        stopped == IF inp.expired THEN up \o <<"stop">> ELSE up
        copied  == stopped \o <<"copy_sim", "copy_client", "copy_server">>
        calls   == CallsCheck(inp.expired, inp.output)
        checked == IF calls THEN copied \o <<"check">> ELSE copied
        status  == Classify(inp.expired, inp.output, inp.check)
        saved   == checked \o <<"removeHandler">>
    IN  IF ~inp.cert
          THEN RunTestResult(FAILED, NoException, setup \o <<"return">>)
        ELSE IF ~inp.captured
          THEN RunTestResult(FAILED, "AttributeError", up)
        ELSE IF inp.expired /\ inp.stop_overrun
          THEN RunTestResult(FAILED, "TimeoutExpired", stopped)
        ELSE IF calls /\ inp.check = "Exception"
          THEN RunTestResult(FAILED, "Exception", checked)
        ELSE IF Promotes(status) /\ inp.log_dir_exists
          THEN RunTestResult(status, "FileExistsError", saved)
        ELSE RunTestResult(status, NoException,
                 saved \o (IF Promotes(status) THEN <<"promote">> ELSE <<>>)
                       \o <<"cleanup", "return">>)

(***************************************************************************)
(* run.py: main() builds the runner from the command line                  *)
(***************************************************************************)
\* the registry: role both, client only, server only (run.py 109-118)
client_implementations == <<"quic-go", "kwik">>

server_implementations == <<"quic-go", "nginx">>

\* testcases.py 1626-1656, two tests and one measurement of them
TESTCASES == <<"handshake", "transfer">>

MEASUREMENTS == <<"goodput">>

\* MeasurementGoodput.repetitions()
Repetitions == 5

Range(seq) == {seq[k] : k \in 1..Len(seq)}

SeqsUpTo(S, n) == UNION {[1..m -> S] : m \in 1..n}

\* an optional command-line argument: not given (None), or a list of names
NotGiven == [given |-> FALSE, names |-> <<>>]

Given(names) == [given |-> TRUE, names |-> names]

\* run.py 131-139, for arguments whose names are all available
get_impls(arg, availableImpls) ==
    IF ~arg.given \/ arg.names = <<>> THEN availableImpls ELSE arg.names

\* run.py 141-151
get_impl_pairs(clients, servers, must_include) ==
    LET hit(c, s) == \/ ~must_include.given
                     \/ <<c>> = must_include.names
                     \/ <<s>> = must_include.names
        RECURSIVE pairs_from(_)
        pairs_from(n) ==
            IF n > Len(clients) * Len(servers) THEN <<>>
            ELSE LET c == clients[((n - 1) \div Len(servers)) + 1]
                     s == servers[((n - 1) % Len(servers)) + 1]
                 IN  (IF hit(c, s) THEN <<<<c, s>>>> ELSE <<>>) \o pairs_from(n + 1)
    IN  pairs_from(1)

\* run.py 153-190, for a -t argument that is None, a sentinel or a list of names
get_tests_and_measurements(arg) ==
    IF arg.kind = "None" THEN <<TESTCASES, MEASUREMENTS>>
    ELSE IF arg.kind = "onlyTests" THEN <<TESTCASES, <<>>>>
    ELSE IF arg.kind = "onlyMeasurements" THEN <<<<>>, MEASUREMENTS>>
    ELSE <<SelectSeq(arg.names, LAMBDA t : t \in Range(TESTCASES)),
           SelectSeq(arg.names, LAMBDA t : t \in Range(MEASUREMENTS))>>

\* run.py 195-216
no_auto_unsupported(arg, clients, servers) ==
    IF ~arg.given
    THEN {kind[1] : kind \in {k \in {clients, servers} : Len(k) = 1}}
    ELSE Range(get_impls(arg, clients \o servers))

\* the command lines of the model
ClientArgs == {NotGiven} \cup {Given(l) : l \in SeqsUpTo(Range(client_implementations), MaxNames)}

ServerArgs == {NotGiven} \cup {Given(l) : l \in SeqsUpTo(Range(server_implementations), MaxNames)}

MustIncludeArgs ==
    {NotGiven} \cup {Given(<<n>>) : n \in Range(client_implementations) \cup Range(server_implementations)}

TestArgs ==
    {[kind |-> k, names |-> <<>>] : k \in {"None", "onlyTests", "onlyMeasurements"}}
        \cup {[kind |-> "list", names |-> l] :
                 l \in SeqsUpTo(Range(TESTCASES) \cup Range(MEASUREMENTS), MaxTests)}

\* -n: not given, given empty, or one name (checked against clients + servers)
NoAutoArgs(clients, servers) ==
    {NotGiven, Given(<<>>)} \cup {Given(<<n>>) : n \in Range(clients) \cup Range(servers)}

\* run.py 192-217: what main() hands to InteropRunner
Runner(pairs, tm, nau, json) ==
    [client_server_pairs |-> pairs, tests |-> tm[1], measurements |-> tm[2],
     no_auto_unsupported |-> nau, output |-> json]

\* the runners main() builds for -c c and -s sv
RunnersOf(c, sv) ==
    LET clients == get_impls(c, client_implementations)
        servers == get_impls(sv, server_implementations)
    IN  { Runner(get_impl_pairs(clients, servers, m),
                 get_tests_and_measurements(t),
                 no_auto_unsupported(n, clients, servers),
                 json) :
            m \in MustIncludeArgs, t \in TestArgs,
            n \in NoAutoArgs(clients, servers), json \in BOOLEAN }

\* the runners of the command lines that ask for at most MaxWrites cells
main ==
    { r \in UNION {RunnersOf(c, sv) : c \in ClientArgs, sv \in ServerArgs} :
        Len(r.client_server_pairs) * (Len(r.tests) + Len(r.measurements)) <= MaxWrites }

(***************************************************************************)
(* InteropRunner._postprocess_results                                      *)
(*                                                                         *)
(* The matrix test_results[server][client][test] is a function on the      *)
(* triples <<server, client, test>> that __init__ created; a lookup        *)
(* outside its domain is a KeyError.                                       *)
(***************************************************************************)
\* the value __init__ gives a cell: setdefault(test, {})
Unwritten == "{}"

\* Questionable with failed cells only
Questionable_OnlyFailed == {FAILED}

\* line 192
Questionable == {FAILED, UNSUPPORTED}

\* client_rule_applies without the guard on the number of servers
client_rule_applies_Always(servers) == TRUE

\* line 194
client_rule_applies(servers) == Len(servers) > 1

\* line 205
server_rule_applies(clients) == Len(clients) > 1

\* lines 190-191: the clients and the servers of the pair list, as sets
ClientsOf(pairs) == {pr[1] : pr \in Range(pairs)}

ServersOf(pairs) == {pr[2] : pr \in Range(pairs)}

\* the orders in which a set can be iterated
Orders(S) == {o \in [1..Cardinality(S) -> S] : \A a, b \in 1..Cardinality(S) : o[a] = o[b] => a = b}

\* lines 197 and 208: all(cell in questionable for ...), the cells looked at in
\* order: "True", "False", or "KeyError" at the first cell that does not exist
RECURSIVE all_questionable(_, _, _)
all_questionable(tr, keys, k) ==
    IF k > Len(keys) THEN "True"
    ELSE IF keys[k] \notin DOMAIN tr THEN "KeyError"
    ELSE IF tr[keys[k]] \in Questionable THEN all_questionable(tr, keys, k + 1)
    ELSE "False"

\* lines 195-203 and 206-214: rows[k] holds the cells one all(...) looks at;
\* a row that is questionable throughout is rewritten to unsupported
RECURSIVE mark_rows(_, _, _)
mark_rows(st, rows, k) ==
    IF k > Len(rows) \/ st.raised # NoException THEN st
    ELSE LET q == all_questionable(st.tr, rows[k], 1)
         IN  mark_rows(
                 IF q = "KeyError" THEN [st EXCEPT !.raised = "KeyError"]
                 ELSE IF q = "True"
                      THEN [st EXCEPT !.tr = [x \in DOMAIN st.tr |->
                                IF x \in Range(rows[k]) THEN UNSUPPORTED ELSE st.tr[x]]]
                 ELSE st,
                 rows, k + 1)

\* the rows of the client rule: for c in c_iter, for t in tests, s over servers
client_rows(c_iter, tests, servers) ==
    [n \in 1..(Len(c_iter) * Len(tests)) |->
        [m \in 1..Len(servers) |->
            <<servers[m], c_iter[((n - 1) \div Len(tests)) + 1],
              tests[((n - 1) % Len(tests)) + 1]>>]]

\* the rows of the server rule: for s in s_iter, for t in tests, c over clients
server_rows(s_iter, tests, clients) ==
    [n \in 1..(Len(s_iter) * Len(tests)) |->
        [m \in 1..Len(clients) |->
            <<s_iter[((n - 1) \div Len(tests)) + 1], clients[m],
              tests[((n - 1) % Len(tests)) + 1]>>]]

\* lines 189-214. clients and servers are list(set(...)) in the order the build
\* iterates them, c_iter and s_iter the orders of the two set differences
_postprocess_results(tr, tests, clients, servers, c_iter, s_iter) ==
    LET start == [tr |-> tr, raised |-> NoException]
        after_clients ==
            IF client_rule_applies(servers)
            THEN mark_rows(start, client_rows(c_iter, tests, servers), 1)
            ELSE start
    IN  IF server_rule_applies(clients)
        THEN mark_rows(after_clients, server_rows(s_iter, tests, clients), 1)
        ELSE after_clients

(***************************************************************************)
(* State                                                                   *)
(***************************************************************************)
VARIABLES
    call,                   \* SpecRunTest, SpecMeasurement: what the environment does in the call
    ret,                    \* SpecRunTest, SpecMeasurement: what the call did, NotRun before it ran
    _client_server_pairs,   \* InteropRunner: the pair list, <<client, server>> each
    _tests,                 \* InteropRunner: the selected tests
    _measurements,          \* InteropRunner: the selected measurements
    _no_auto_unsupported,   \* InteropRunner: the opt-out set of post-processing
    _output,                \* InteropRunner: a JSON file was asked for (-j)
    test_results,           \* InteropRunner: <<server, client, test>> -> verdict
    measurement_results,    \* InteropRunner: <<server, client, measurement>> -> result
    compliant,              \* InteropRunner: implementation -> cached probe verdict
    pc,                     \* run(): where it is
    i,                      \* run(): index of the pair of the loop of line 637
    j,                      \* run(): index of the test or measurement of the pair
    rep,                    \* _run_measurement: the repetition about to run
    nr_failed,              \* run(): the counter it returns
    tempdir,                \* run(): its local tempdir is bound (line 656)
    log_tree,               \* the directories promoted under _log_dir
    raised,                 \* the exception that ended run(), NoException otherwise
    verdicts,               \* history: the assignments of line 679, in order
    exit_code,              \* what run() returned, "-" before it returns
    _containers,            \* DockerRunner: the class-level list add_container appends to
    e,                      \* DockerRunner.run: the loop variable, an index into _containers
    threads,                \* DockerRunner.run: the container threads, in creation order
    timer,                  \* DockerRunner.run: the threading.Timer
    docker_pc,              \* DockerRunner.run: where the main thread is
    notified,               \* DockerRunner._cond: the waiting main thread has been woken
    launched,               \* history: the containers docker run was issued for, in order
    stops                   \* history: the number of docker stop commands issued

vars == <<call, ret, _client_server_pairs, _tests, _measurements, _no_auto_unsupported,
          _output, test_results, measurement_results, compliant, pc, i, j, rep,
          nr_failed, tempdir, log_tree, raised, verdicts, exit_code,
          _containers, e, threads, timer, docker_pc, notified, launched, stops>>

docker_vars == <<_containers, e, threads, timer, docker_pc, notified, launched, stops>>

runner_vars == <<_client_server_pairs, _tests, _measurements, _no_auto_unsupported, _output>>

run_vars == <<test_results, measurement_results, compliant, pc, i, j, rep, nr_failed,
              tempdir, log_tree, raised, verdicts, exit_code>>

NotRun == RunTestResult("-", NoException, <<>>)

\* ev is among the steps an invocation of _run_test took
Did(ev, r) == \E k \in 1..Len(r.events) : r.events[k] = ev

(***************************************************************************)
(* InteropRunner.__init__ and the start of run()                           *)
(***************************************************************************)
\* lines 94-102: the cells __init__ creates
Cells(pairs, names) == {<<pr[2], pr[1], t>> : pr \in Range(pairs), t \in Range(names)}

\* where the loops of run() stand: a test, a measurement, or past the last pair
FirstOfPair(n, tests) ==
    [pc |-> IF Len(tests) > 0 THEN "test" ELSE "measurement", i |-> n, j |-> 1]

AfterPair(n, pairs, tests) ==
    IF n < Len(pairs) THEN FirstOfPair(n + 1, tests)
    ELSE [pc |-> "postprocess", i |-> n, j |-> 1]

\* AfterTest leaving the pair after its first test
AfterTest_LeavesPair(n, m, pairs, tests, measurements) == AfterPair(n, pairs, tests)

AfterTest(n, m, pairs, tests, measurements) ==
    IF m < Len(tests) THEN [pc |-> "test", i |-> n, j |-> m + 1]
    ELSE IF Len(measurements) > 0 THEN [pc |-> "measurement", i |-> n, j |-> 1]
    ELSE AfterPair(n, pairs, tests)

AfterMeasurement(n, m, pairs, tests, measurements) ==
    IF m < Len(measurements) THEN [pc |-> "measurement", i |-> n, j |-> m + 1]
    ELSE AfterPair(n, pairs, tests)

Start(pairs, tests, measurements) ==
    IF Len(pairs) = 0 \/ (Len(tests) = 0 /\ Len(measurements) = 0)
    THEN [pc |-> "postprocess", i |-> 0, j |-> 1]
    ELSE FirstOfPair(1, tests)

\* the value __init__ gives a measurement cell, setdefault(measurement, {}): a
\* cell that has neither a result nor details yet
UnwrittenMeasurement == [result |-> Unwritten, details |-> Unwritten]

\* docker.py 8: the class-level list is empty and no DockerRunner is running
NoDockerRunner ==
    /\ _containers = <<>>
    /\ e = 0
    /\ threads = <<>>
    /\ timer = "none"
    /\ docker_pc = "idle"
    /\ notified = FALSE
    /\ launched = <<>>
    /\ stops = 0

\* the runner as __init__ leaves it, run() entered (line 636)
InitRunner(r) ==
    /\ _client_server_pairs = r.client_server_pairs
    /\ _tests = r.tests
    /\ _measurements = r.measurements
    /\ _no_auto_unsupported = r.no_auto_unsupported
    /\ _output = r.output
    /\ test_results = [c \in Cells(r.client_server_pairs, r.tests) |-> Unwritten]
    /\ measurement_results =
           [c \in Cells(r.client_server_pairs, r.measurements) |-> UnwrittenMeasurement]
    /\ compliant = <<>>
    /\ pc = Start(r.client_server_pairs, r.tests, r.measurements).pc
    /\ i = Start(r.client_server_pairs, r.tests, r.measurements).i
    /\ j = 1
    /\ rep = 1
    /\ nr_failed = 0
    /\ tempdir = FALSE
    /\ log_tree = {}
    /\ raised = NoException
    /\ verdicts = <<>>
    /\ exit_code = "-"

Init ==
    /\ call = CHOOSE inp \in RunTestInputs : TRUE
    /\ ret = NotRun
    /\ \E r \in main : InitRunner(r)
    /\ NoDockerRunner

(***************************************************************************)
(* InteropRunner.run                                                       *)
(***************************************************************************)
\* what an invocation of _run_test leaves to its caller
Outcome(r) == [status |-> r.status, raised |-> r.raised, promoted |-> Did("promote", r)]

\* the ways the environment can behave in one invocation, each as the outcome
\* it leads to when the log directory does not exist yet and when it does
RunTestBehaviours ==
    { [exists \in BOOLEAN |-> Outcome(_run_test([inp EXCEPT !.log_dir_exists = exists]))] :
        inp \in RunTestInputs }

\* CountFailed with unsupported runs counted too
CountFailed_AlsoUnsupported(nr, status) ==
    IF status = FAILED \/ status = UNSUPPORTED THEN nr + 1 ELSE nr

\* lines 680-681
CountFailed(nr, status) == IF status = FAILED THEN nr + 1 ELSE nr

Goto(pos) ==
    /\ pc' = pos.pc
    /\ i' = pos.i
    /\ j' = pos.j

Raise(exception) ==
    /\ pc' = "raised"
    /\ raised' = exception
    /\ UNCHANGED <<i, j>>

\* lines 654-686: one test of the pair, from the temporary directories to the
\* assignment of the cell
RunTestcase ==
    /\ pc = "test"
    /\ LET client == _client_server_pairs[i][1]
           server == _client_server_pairs[i][2]
           test   == _tests[j]
       IN  /\ tempdir' = TRUE
           /\ \/ \* line 672: certs.sh fails, generate_cert_chain calls sys.exit(1)
                 /\ Raise("SystemExit")
                 /\ UNCHANGED <<test_results, nr_failed, log_tree, verdicts>>
              \/ \E b \in RunTestBehaviours :
                   LET exists == <<server, client, test, 0>> \in log_tree
                       out == b[exists]
                   IN  IF out.raised # NoException
                       THEN /\ Raise(out.raised)
                            /\ UNCHANGED <<test_results, nr_failed, log_tree, verdicts>>
                       ELSE /\ test_results' =
                                 [test_results EXCEPT ![<<server, client, test>>] = out.status]
                            /\ nr_failed' = CountFailed(nr_failed, out.status)
                            /\ verdicts' = Append(verdicts,
                                 [server |-> server, client |-> client, test |-> test,
                                  status |-> out.status])
                            /\ log_tree' = IF out.promoted
                                           THEN log_tree \cup {<<server, client, test, 0>>}
                                           ELSE log_tree
                            /\ raised' = raised
                            /\ Goto(AfterTest(i, j, _client_server_pairs, _tests, _measurements))
    /\ UNCHANGED <<docker_vars, call, ret, runner_vars, measurement_results, compliant, rep, exit_code>>

\* the cell line 710 writes
MeasurementResult(result, details) == [result |-> result, details |-> details]

\* lines 689-713 and 612-631: one repetition of one measurement of the pair; the
\* cell is written when the repetitions end
RunMeasurement ==
    /\ pc = "measurement"
    /\ LET client == _client_server_pairs[i][1]
           server == _client_server_pairs[i][2]
           meas   == _measurements[j]
           next   == AfterMeasurement(i, j, _client_server_pairs, _tests, _measurements)
       IN  \/ \* line 691: measurement_factory reads tempdir, which no test has bound
              /\ ~tempdir
              /\ Raise("NameError")
              /\ UNCHANGED <<measurement_results, log_tree, rep>>
           \/ \* line 698: certs.sh fails, generate_cert_chain calls sys.exit(1)
              /\ tempdir
              /\ Raise("SystemExit")
              /\ UNCHANGED <<measurement_results, log_tree, rep>>
           \/ /\ tempdir
              /\ \E b \in RunTestBehaviours :
                   LET exists == <<server, client, meas, rep>> \in log_tree
                       out == b[exists]
                   IN  IF out.raised # NoException
                       THEN /\ Raise(out.raised)
                            /\ UNCHANGED <<measurement_results, log_tree, rep>>
                       ELSE /\ raised' = raised
                            /\ log_tree' = IF out.promoted
                                           THEN log_tree \cup {<<server, client, meas, rep>>}
                                           ELSE log_tree
                            /\ IF out.status # SUCCEEDED
                               THEN /\ measurement_results' =
                                         [measurement_results EXCEPT
                                            ![<<server, client, meas>>] =
                                                MeasurementResult(out.status, "")]
                                    /\ rep' = 1
                                    /\ Goto(next)
                               ELSE IF rep < Repetitions
                               THEN /\ rep' = rep + 1
                                    /\ UNCHANGED <<measurement_results, pc, i, j>>
                               ELSE /\ measurement_results' =
                                         [measurement_results EXCEPT
                                            ![<<server, client, meas>>] =
                                                MeasurementResult(SUCCEEDED, "mean (+- stdev) unit")]
                                    /\ rep' = 1
                                    /\ Goto(next)
    /\ UNCHANGED <<docker_vars, call, ret, runner_vars, test_results, compliant, nr_failed, tempdir,
                   verdicts, exit_code>>

\* PostprocessResults with both rules applied to every client and every server,
\* the opt-out set ignored
PostprocessResults_IgnoresOptOut ==
    /\ pc = "postprocess"
    /\ \E clients \in Orders(ClientsOf(_client_server_pairs)),
          servers \in Orders(ServersOf(_client_server_pairs)),
          c_iter \in Orders(ClientsOf(_client_server_pairs)),
          s_iter \in Orders(ServersOf(_client_server_pairs)) :
          LET st == _postprocess_results(test_results, _tests, clients, servers, c_iter, s_iter)
          IN  /\ test_results' = st.tr
              /\ IF st.raised # NoException
                 THEN Raise(st.raised)
                 ELSE /\ pc' = "print"
                      /\ UNCHANGED <<i, j, raised>>
    /\ UNCHANGED <<docker_vars, call, ret, runner_vars, measurement_results, compliant, rep, nr_failed,
                   tempdir, log_tree, verdicts, exit_code>>

\* line 715
PostprocessResults ==
    /\ pc = "postprocess"
    /\ \E clients \in Orders(ClientsOf(_client_server_pairs)),
          servers \in Orders(ServersOf(_client_server_pairs)),
          c_iter \in Orders(ClientsOf(_client_server_pairs) \ _no_auto_unsupported),
          s_iter \in Orders(ServersOf(_client_server_pairs) \ _no_auto_unsupported) :
          LET st == _postprocess_results(test_results, _tests, clients, servers, c_iter, s_iter)
          IN  /\ test_results' = st.tr
              /\ IF st.raised # NoException
                 THEN Raise(st.raised)
                 ELSE /\ pc' = "print"
                      /\ UNCHANGED <<i, j, raised>>
    /\ UNCHANGED <<docker_vars, call, ret, runner_vars, measurement_results, compliant, rep, nr_failed,
                   tempdir, log_tree, verdicts, exit_code>>

\* line 716: _print_results reads the cells of the pairs of the list only
PrintResults ==
    /\ pc = "print"
    /\ pc' = "export"
    /\ UNCHANGED <<docker_vars, call, ret, runner_vars, test_results, measurement_results, compliant,
                   i, j, rep, nr_failed, tempdir, log_tree, raised, verdicts, exit_code>>

\* lines 320-349: _export_results reads the cell of every client and every server
ExportReadsMissingCell ==
    \E c \in ClientsOf(_client_server_pairs), s \in ServersOf(_client_server_pairs) :
        \/ \E t \in Range(_tests) : <<s, c, t>> \notin DOMAIN test_results
        \/ \E m \in Range(_measurements) : <<s, c, m>> \notin DOMAIN measurement_results

\* line 717
ExportResults ==
    /\ pc = "export"
    /\ IF _output /\ ExportReadsMissingCell
       THEN Raise("KeyError")
       ELSE /\ pc' = "return"
            /\ UNCHANGED <<i, j, raised>>
    /\ UNCHANGED <<docker_vars, call, ret, runner_vars, test_results, measurement_results, compliant,
                   rep, nr_failed, tempdir, log_tree, verdicts, exit_code>>

\* line 718
Return ==
    /\ pc = "return"
    /\ pc' = "done"
    /\ exit_code' = nr_failed
    /\ UNCHANGED <<docker_vars, call, ret, runner_vars, test_results, measurement_results, compliant,
                   i, j, rep, nr_failed, tempdir, log_tree, raised, verdicts>>

Next ==
    \/ RunTestcase
    \/ RunMeasurement
    \/ PostprocessResults
    \/ PrintResults
    \/ ExportResults
    \/ Return

Spec == Init /\ [][Next]_vars

(***************************************************************************)
(* SpecRunTest: one invocation of _run_test                                *)
(***************************************************************************)
InitRunTest ==
    /\ call \in RunTestInputs
    /\ ret = NotRun
    /\ InitRunner(Runner(<<>>, <<<<>>, <<>>>>, {}, FALSE))
    /\ NoDockerRunner

RunTest ==
    /\ ret = NotRun
    /\ ret' = _run_test(call)
    /\ UNCHANGED <<docker_vars, call, runner_vars, run_vars>>

NextRunTest == RunTest

SpecRunTest == InitRunTest /\ [][NextRunTest]_vars

(***************************************************************************)
(* InteropRunner._run_measurement                                          *)
(*                                                                         *)
(* SpecMeasurement: one call of _run_measurement. call holds what the      *)
(* repetitions return when they are run, as <<verdict, value>> each; ret   *)
(* what the call returned and the repetitions it started.                  *)
(***************************************************************************)
\* the values testcase.result() can yield (kbps)
Values == {1, 2, 6}

\* MeasurementGoodput.unit()
Unit == "kbps"

MeasurementInputs ==
    [1..Repetitions -> [status : TestResult, value : Values]]

RECURSIVE Sum(_, _)
Sum(seq, k) == IF k > Len(seq) THEN 0 ELSE seq[k] + Sum(seq, k + 1)

Squares(seq) == [k \in 1..Len(seq) |-> seq[k] * seq[k]]

\* "{:.0f}".format(num / den): the nearest integer, a tie going to the even one
RoundHalfEven(num, den) ==
    LET q == num \div den
        r == num % den
    IN  IF 2 * r < den THEN q
        ELSE IF 2 * r > den THEN q + 1
        ELSE IF q % 2 = 0 THEN q ELSE q + 1

\* "{:.0f}".format(sqrt(num / den))
RoundSqrtHalfEven(num, den) ==
    LET up == CHOOSE r \in 0..(num + 1) :
                  /\ (r = 0 \/ (2 * r - 1) * (2 * r - 1) * den <= 4 * num)
                  /\ 4 * num < (2 * r + 1) * (2 * r + 1) * den
    IN  IF up > 0 /\ (2 * up - 1) * (2 * up - 1) * den = 4 * num /\ up % 2 = 1
        THEN up - 1
        ELSE up

\* statistics.mean(values), printed with {:.0f}
Mean(values) == RoundHalfEven(Sum(values, 1), Len(values))

\* statistics.stdev(values), the sample standard deviation, printed with {:.0f}
Stdev(values) ==
    LET n == Len(values)
        s == Sum(values, 1)
    IN  RoundSqrtHalfEven(n * Sum(Squares(values), 1) - s * s, n * (n - 1))

\* lines 628-630: the format string of the source, character by character where
\* it is not ASCII: U+00C2 and U+00B1 stand between the parenthesis and the space
Details(values) ==
    <<Mean(values), " (", "U+00C2", "U+00B1", " ", Stdev(values), ") ", Unit>>

\* line 620, details = ""
NoDetails == <<>>

\* line 617 with only failed repetitions ending the loop
EndsLoop_OnlyFailed(result) == result = FAILED

\* line 617: if result != TestResult.SUCCEEDED
EndsLoop(result) == result # SUCCEEDED

\* what a call returned, and the repetitions it started
MeasurementReturn(result, details, started) ==
    [result |-> result, details |-> details, started |-> started]

\* lines 616-631: the loop from repetition k on, with the values collected so far
RECURSIVE repeat(_, _, _)
repeat(results, k, values) ==
    IF k > Repetitions
    THEN MeasurementReturn(SUCCEEDED, Details(values), k - 1)
    ELSE IF EndsLoop(results[k].status)
    THEN MeasurementReturn(results[k].status, NoDetails, k)
    ELSE repeat(results, k + 1, Append(values, results[k].value))

_run_measurement(results) == repeat(results, 1, <<>>)

NotMeasured == MeasurementReturn("-", NoDetails, 0)

InitMeasurement ==
    /\ call \in MeasurementInputs
    /\ ret = NotMeasured
    /\ InitRunner(Runner(<<>>, <<<<>>, <<>>>>, {}, FALSE))
    /\ NoDockerRunner

RunMeasurementCall ==
    /\ ret = NotMeasured
    /\ ret' = _run_measurement(call)
    /\ UNCHANGED <<docker_vars, call, runner_vars, run_vars>>

NextMeasurement == RunMeasurementCall

SpecMeasurement == InitMeasurement /\ [][NextMeasurement]_vars

(***************************************************************************)
(* InteropRunner._check_impl_is_compliant                                  *)
(*                                                                         *)
(* SpecCompliance: a sequence of calls in one process. compliant is the    *)
(* cache; ret is the history of the calls: the name asked for, what the    *)
(* call returned, and the probes it ran, each with its role and output.    *)
(***************************************************************************)
\* the calls of one behaviour
MaxCalls == 3

\* the implementations of the registry (run.py 105-118)
Implementations == Range(client_implementations) \cup Range(server_implementations)

\* the roles the registry gives an implementation
Advertises(name, role) ==
    \/ role = "client" /\ name \in Range(client_implementations)
    \/ role = "server" /\ name \in Range(server_implementations)

\* what a probe can print: nothing, or one line of the catalogue
ProbeOutputs == {o \in Outputs : Len(o) <= 1}

\* line 111 with only compliant verdicts taken from the cache
Cached_OnlyCompliant(cache, name) == name \in DOMAIN cache /\ cache[name]

\* line 111: if name in self.compliant
Cached(cache, name) == name \in DOMAIN cache

\* self.compliant[name] = verdict
Remember(cache, name, verdict) ==
    [n \in DOMAIN cache \cup {name} |-> IF n = name THEN verdict ELSE cache[n]]

Probe(role, output) == [role |-> role, output |-> output]

ComplianceReturn(cache, name, result, probes) ==
    [cache |-> cache,
     call |-> [name |-> name, result |-> result, probes |-> probes, exited |-> FALSE]]

\* lines 109-187; client_out and server_out are what the two container groups
\* print if they are started
_check_impl_is_compliant(cache, name, client_out, server_out) ==
    IF Cached(cache, name)
    THEN ComplianceReturn(cache, name, cache[name], <<>>)
    ELSE IF ~_is_unsupported(client_out)
    THEN ComplianceReturn(Remember(cache, name, FALSE), name, FALSE,
                          <<Probe("client", client_out)>>)
    ELSE IF ~_is_unsupported(server_out)
    THEN ComplianceReturn(Remember(cache, name, FALSE), name, FALSE,
                          <<Probe("client", client_out), Probe("server", server_out)>>)
    ELSE ComplianceReturn(Remember(cache, name, TRUE), name, TRUE,
                          <<Probe("client", client_out), Probe("server", server_out)>>)

\* the process ended inside a call: generate_cert_chain called sys.exit (line 125)
Exited == Len(ret) > 0 /\ ret[Len(ret)].exited

InitCompliance ==
    /\ call = <<>>
    /\ ret = <<>>
    /\ InitRunner(Runner(<<>>, <<<<>>, <<>>>>, {}, FALSE))
    /\ NoDockerRunner

CheckCompliance ==
    /\ Len(ret) < MaxCalls
    /\ ~Exited
    /\ \E name \in Implementations, client_out \in ProbeOutputs, server_out \in ProbeOutputs :
         LET r == _check_impl_is_compliant(compliant, name, client_out, server_out)
         IN  /\ compliant' = r.cache
             /\ ret' = Append(ret, r.call)
    /\ UNCHANGED <<docker_vars, call, runner_vars, test_results, measurement_results, pc, i, j, rep,
                   nr_failed, tempdir, log_tree, raised, verdicts, exit_code>>

\* line 125: certs.sh fails in a call that found nothing in the cache
CheckComplianceExits ==
    /\ Len(ret) < MaxCalls
    /\ ~Exited
    /\ \E name \in Implementations :
         /\ ~Cached(compliant, name)
         /\ ret' = Append(ret, [name |-> name, result |-> FALSE, probes |-> <<>>,
                                 exited |-> TRUE])
    /\ UNCHANGED <<docker_vars, call, runner_vars, run_vars>>

NextCompliance == CheckCompliance \/ CheckComplianceExits

SpecCompliance == InitCompliance /\ [][NextCompliance]_vars

(***************************************************************************)
(* Properties of _run_test (SpecRunTest)                                   *)
(***************************************************************************)
\* the number of times an invocation took the step ev
Times(ev, r) == Cardinality({k \in 1..Len(r.events) : r.events[k] = ev})

\* every step ev of the invocation came before every step later
Before(ev, later, r) ==
    \A a, b \in 1..Len(r.events) :
        (r.events[a] = ev /\ r.events[b] = later) => a < b

\* the invocation started the container group
GroupRan == ret # NotRun /\ Did("up", ret)

\* the invocation returned to its caller
Returned == ret # NotRun /\ ret.raised = NoException

\* some line of the output holds one of the two 127 markers
HasMarker127(lines) ==
    \E k \in 1..Len(lines) :
        \E m \in {<<"exited with code ", "127">>, <<"exit status ", "127">>} :
            Contains(lines[k], m)

\* the line matches the regular expression client.*exited with code 0
MatchesClientRegex(line) ==
    \E a \in 1..Len(line) : \E b \in (a + 1)..(Len(line) - 1) :
        /\ line[a] = "client"
        /\ SubSeq(line, b, b + 1) = <<"exited with code ", "0">>

SomeLineMatchesClientRegex(lines) ==
    \E k \in 1..Len(lines) : MatchesClientRegex(lines[k])

\* C1: a run that did not time out and whose output holds a 127 marker
\* ("exited with code 127" or "exit status 127") returns unsupported without
\* calling check(), also when a line reports that the client exited with code 0.
C1_Marker127IsUnsupported ==
    (GroupRan /\ ~call.expired /\ HasMarker127(call.output)) =>
        /\ ret.raised = NoException
        /\ ret.status = UNSUPPORTED
        /\ ~Did("check", ret)

C1_Witness ==
    /\ GroupRan
    /\ ~call.expired
    /\ HasMarker127(call.output)
    /\ SomeLineMatchesClientRegex(call.output)
    /\ call.check = SUCCEEDED
    /\ ret.status = UNSUPPORTED

\* C2: in a run that did not time out and has no 127 marker, check() is called
\* exactly when some output line matches client.*exited with code 0; then the
\* value of check() is the status, and otherwise the status is failed.
C2_CheckIffClientRegex ==
    (GroupRan /\ Returned /\ ~call.expired /\ ~HasMarker127(call.output)
              /\ call.check \in TestResult) =>
        /\ Did("check", ret) <=> SomeLineMatchesClientRegex(call.output)
        /\ SomeLineMatchesClientRegex(call.output) => ret.status = call.check
        /\ ~SomeLineMatchesClientRegex(call.output) => ret.status = FAILED

\* C3: when the container group outlives the timeout, the group is stopped
\* exactly once, before the logs of sim, client and server are copied; check()
\* is not called, the logs are promoted, the workspace is cleaned up, and the
\* invocation returns failed without an exception.
C3_TimeoutStopsAndReturnsFailed ==
    (GroupRan /\ call.expired) =>
        /\ Times("stop", ret) = 1
        /\ Before("stop", "copy_sim", ret)
        /\ Before("stop", "copy_client", ret)
        /\ Before("stop", "copy_server", ret)
        /\ Did("copy_sim", ret)
        /\ Did("copy_client", ret)
        /\ Did("copy_server", ret)
        /\ Did("promote", ret)
        /\ Did("cleanup", ret)
        /\ ~Did("check", ret)
        /\ ret.raised = NoException
        /\ ret.status = FAILED

\* C4 as stated: a run that timed out is unsupported when the output captured
\* up to the timeout holds a 127 marker, and failed otherwise.
C4_TimeoutUnsupportedWhenMarker ==
    (GroupRan /\ Returned /\ call.expired) =>
        ret.status = (IF HasMarker127(call.output) THEN UNSUPPORTED ELSE FAILED)

\* C4, amended: a run that timed out has the status failed, also when the
\* output captured up to the timeout holds a 127 marker.
C4_TimeoutIsFailed ==
    (GroupRan /\ call.expired) => ret.status = FAILED

C4_Witness ==
    /\ GroupRan
    /\ Returned
    /\ call.expired
    /\ HasMarker127(call.output)
    /\ ret.status = FAILED

(***************************************************************************)
(* Properties of run() (Spec)                                              *)
(***************************************************************************)
\* the clients and the servers of the runner's pair list
PairClients == ClientsOf(_client_server_pairs)

PairServers == ServersOf(_client_server_pairs)

\* the assignments of line 679 made to the cell x so far
Assignments(x) ==
    {k \in 1..Len(verdicts) :
        <<verdicts[k].server, verdicts[k].client, verdicts[k].test>> = x}

\* the step is a call of _postprocess_results that returns
PostprocessReturns == pc = "postprocess" /\ pc' = "print"

\* the cell exists and holds failed or unsupported
IsQuestionable(tr, x) == x \in DOMAIN tr /\ tr[x] \in {FAILED, UNSUPPORTED}

\* C5: every test that run() executed belongs to a pair whose client and server
\* both have a compliance verdict in the cache, and that verdict is compliant;
\* the same holds for every measurement cell it wrote.
C5_RunsOnlyCompliantPairs ==
    LET Compliant(impl) == impl \in DOMAIN compliant /\ compliant[impl] = TRUE
    IN  /\ \A k \in 1..Len(verdicts) :
               Compliant(verdicts[k].client) /\ Compliant(verdicts[k].server)
        /\ \A x \in DOMAIN measurement_results :
               measurement_results[x] # UnwrittenMeasurement =>
                   (Compliant(x[1]) /\ Compliant(x[2]))

\* C6: when _postprocess_results returns and the pair list has more than one
\* server, every client outside the opt-out set and every test whose cells held
\* failed or unsupported for every server hold unsupported in all those cells
\* afterwards; symmetrically for every server outside the opt-out set when the
\* pair list has more than one client.
C6_PostprocessMarksRows ==
    [][ PostprocessReturns =>
          /\ Cardinality(PairServers) > 1 =>
               \A c \in PairClients \ _no_auto_unsupported : \A t \in Range(_tests) :
                   (\A s \in PairServers : IsQuestionable(test_results, <<s, c, t>>))
                       => \A s \in PairServers : test_results'[<<s, c, t>>] = UNSUPPORTED
          /\ Cardinality(PairClients) > 1 =>
               \A s \in PairServers \ _no_auto_unsupported : \A t \in Range(_tests) :
                   (\A c \in PairClients : IsQuestionable(test_results, <<s, c, t>>))
                       => \A c \in PairClients : test_results'[<<s, c, t>>] = UNSUPPORTED
      ]_vars

\* post-processing returned, and a client outside the opt-out set that failed a
\* test with one of two servers and was unsupported with the other now holds
\* unsupported with both
C6_Witness ==
    /\ pc = "print"
    /\ Cardinality(PairServers) > 1
    /\ \E c \in PairClients \ _no_auto_unsupported : \E t \in Range(_tests) :
         /\ \A s \in PairServers :
              <<s, c, t>> \in DOMAIN test_results /\ test_results[<<s, c, t>>] = UNSUPPORTED
         /\ \E k \in 1..Len(verdicts) :
              verdicts[k].client = c /\ verdicts[k].test = t /\ verdicts[k].status = FAILED
         /\ \E k \in 1..Len(verdicts) :
              verdicts[k].client = c /\ verdicts[k].test = t /\ verdicts[k].status = UNSUPPORTED

\* C7: a cell that holds a verdict changes only in _postprocess_results, and
\* there only from failed to unsupported.
C7_WrittenCellsOnlyDowngraded ==
    [][ \A x \in DOMAIN test_results :
          (test_results[x] # Unwritten /\ test_results'[x] # test_results[x]) =>
              /\ pc = "postprocess"
              /\ test_results[x] = FAILED
              /\ test_results'[x] = UNSUPPORTED
      ]_vars

\* C8 as stated: with exactly one server, or exactly one client, in the pair
\* list, post-processing changes no cell, whatever the opt-out set is.
C8_SingleAxisNeverRewrites ==
    [][ (pc = "postprocess"
            /\ (Cardinality(PairServers) = 1 \/ Cardinality(PairClients) = 1))
          => test_results' = test_results
      ]_vars

\* C8, amended: with exactly one server in the pair list, post-processing
\* changes no cell provided that this server is in the opt-out set or there is
\* exactly one client too; symmetrically for exactly one client.
C8_SingleAxisInOptOutNeverRewrites ==
    [][ (pc = "postprocess"
            /\ \/ /\ Cardinality(PairServers) = 1
                  /\ (PairServers \subseteq _no_auto_unsupported
                         \/ Cardinality(PairClients) = 1)
               \/ /\ Cardinality(PairClients) = 1
                  /\ (PairClients \subseteq _no_auto_unsupported
                         \/ Cardinality(PairServers) = 1))
          => test_results' = test_results
      ]_vars

\* post-processing returned for one server of the opt-out set and two clients,
\* and every cell of the matrix still holds failed
C8_Witness ==
    /\ pc = "print"
    /\ Cardinality(PairServers) = 1
    /\ Cardinality(PairClients) = 2
    /\ PairServers \subseteq _no_auto_unsupported
    /\ DOMAIN test_results # {}
    /\ \A x \in DOMAIN test_results : test_results[x] = FAILED

\* C9 as stated: the value run() returns is the number of failed cells of the
\* matrix as it is printed and exported, and it is 0 exactly when no test and
\* no measurement of the run ended failed.
C9_ExitCodeIsFailedCellsOfFinalMatrix ==
    pc = "done" =>
        /\ exit_code = Cardinality({x \in DOMAIN test_results : test_results[x] = FAILED})
        /\ exit_code = 0 <=>
             /\ \A k \in 1..Len(verdicts) : verdicts[k].status # FAILED
             /\ \A x \in DOMAIN measurement_results :
                    measurement_results[x].result # FAILED

\* C9, amended: the value run() returns is the number of test executions whose
\* verdict was failed when line 679 assigned it, before post-processing;
\* measurements are not counted.
C9_ExitCodeIsFailedExecutions ==
    pc = "done" =>
        exit_code = Cardinality({k \in 1..Len(verdicts) : verdicts[k].status = FAILED})

\* run() returned a positive count although the matrix it printed holds no
\* failed cell
C9_Witness ==
    /\ pc = "done"
    /\ exit_code > 0
    /\ \A x \in DOMAIN test_results : test_results[x] # FAILED

\* C10: no cell is assigned a verdict more than once, and when post-processing
\* starts every cell has been assigned exactly once.
C10_EachCellAssignedOnce ==
    /\ \A x \in DOMAIN test_results : Cardinality(Assignments(x)) <= 1
    /\ pc = "postprocess" =>
         \A x \in DOMAIN test_results : Cardinality(Assignments(x)) = 1

(***************************************************************************)
(* Properties of _run_test (SpecRunTest): logs, resources, errors          *)
(***************************************************************************)
\* C11: for every invocation that returns, the logs are promoted into the log
\* tree exactly when the returned verdict is succeeded or failed: an
\* unsupported run promotes nothing, and every failed run, also one that fails
\* during setup, has its logs promoted.
C11_PromotedIffSucceededOrFailed ==
    Returned => (Did("promote", ret) <=> ret.status \in {SUCCEEDED, FAILED})

\* C12: when an invocation is over, however it ended, the log handler it
\* attached to the root logger has been removed and its workspace has been
\* cleaned up.
C12_ResourcesReleased ==
    ret # NotRun =>
        /\ Times("removeHandler", ret) = Times("addHandler", ret)
        /\ Did("cleanup", ret)

\* C13: when check() is called and raises an error, no exception leaves the
\* invocation: it ends with the verdict failed and its logs are promoted.
C13_CheckErrorsBecomeFailed ==
    (GroupRan /\ CallsCheck(call.expired, call.output) /\ call.check \notin TestResult
              /\ ~call.log_dir_exists) =>
        /\ ret.raised = NoException
        /\ ret.status = FAILED
        /\ Did("promote", ret)

(***************************************************************************)
(* Properties of _run_measurement (SpecMeasurement)                        *)
(***************************************************************************)
\* the call of _run_measurement has returned
Measured == ret.started > 0

\* the first repetition that does not return succeeded, Repetitions if none
FirstNotSucceeded(results) ==
    IF \E k \in 1..Repetitions : results[k].status # SUCCEEDED
    THEN CHOOSE k \in 1..Repetitions :
             /\ results[k].status # SUCCEEDED
             /\ \A n \in 1..(k - 1) : results[n].status = SUCCEEDED
    ELSE Repetitions

\* C14: _run_measurement starts the repetitions 1..k only, k being the first
\* repetition whose verdict is not succeeded, or repetitions() when all succeed;
\* when a repetition is not succeeded, the result returned carries that
\* repetition's verdict and empty details.
C14_StopsAtFirstNotSucceeded ==
    Measured =>
        LET k == FirstNotSucceeded(call)
        IN  /\ ret.started = k
            /\ call[k].status # SUCCEEDED =>
                   /\ ret.result = call[k].status
                   /\ ret.details = NoDetails

\* repetition 3 failed, repetition 4 would have succeeded and was not started
C14_Witness ==
    /\ Measured
    /\ FirstNotSucceeded(call) = 3
    /\ call[3].status = FAILED
    /\ call[4].status = SUCCEEDED
    /\ ret.started = 3
    /\ ret.result = FAILED
    /\ ret.details = NoDetails

\* C15: the result is succeeded exactly when all repetitions() runs returned
\* succeeded; its details are then "<mean> (U+00B1 <stdev>) <unit>", mean and
\* sample standard deviation of the values of the runs printed as integers and
\* the unit of the measurement; for every other result the details are empty.
C15_DetailsAreMeanStdevUnit ==
    Measured =>
        LET all == \A k \in 1..Repetitions : call[k].status = SUCCEEDED
            values == [k \in 1..Repetitions |-> call[k].value]
        IN  /\ ret.result = SUCCEEDED <=> all
            /\ all => ret.details =
                   <<Mean(values), " (", "U+00B1", " ", Stdev(values), ") ", Unit>>
            /\ ~all => ret.details = NoDetails

(***************************************************************************)
(* Properties of _check_impl_is_compliant (SpecCompliance)                 *)
(***************************************************************************)
\* the calls that returned
ReturnedCalls == {k \in 1..Len(ret) : ~ret[k].exited}

\* the first call that returned for the implementation of call k
FirstCallFor(k) ==
    CHOOSE f \in ReturnedCalls :
        /\ ret[f].name = ret[k].name
        /\ \A o \in ReturnedCalls : ret[o].name = ret[k].name => f <= o

\* the probes of the role that call k ran
ProbesOf(k, role) == {n \in 1..Len(ret[k].probes) : ret[k].probes[n].role = role}

\* C16: for each implementation and role the container group is started at
\* most once over all calls: every call after the first that returned for an
\* implementation starts nothing and returns the verdict of the first, and the
\* cache holds that verdict from then on.
C16_ProbedAtMostOnce ==
    /\ \A k \in ReturnedCalls :
         k # FirstCallFor(k) =>
             /\ ret[k].probes = <<>>
             /\ ret[k].result = ret[FirstCallFor(k)].result
    /\ \A k \in ReturnedCalls :
         /\ ret[k].name \in DOMAIN compliant
         /\ compliant[ret[k].name] = ret[FirstCallFor(k)].result
    /\ \A name \in Implementations : \A role \in {"client", "server"} :
         Cardinality({k \in ReturnedCalls :
                         ret[k].name = name /\ ProbesOf(k, role) # {}}) <= 1

\* an implementation found not compliant is asked for again after another one
\* was probed, and the call starts nothing and returns the first verdict
C16_Witness ==
    /\ Len(ret) = 3
    /\ ReturnedCalls = {1, 2, 3}
    /\ ret[1].name = ret[3].name
    /\ ret[2].name # ret[1].name
    /\ ret[1].probes # <<>>
    /\ ret[2].probes # <<>>
    /\ ret[1].result = FALSE
    /\ ret[3].probes = <<>>
    /\ ret[3].result = FALSE

\* C17: a call that probes an implementation runs one probe for each role the
\* implementation advertises and for no other role, and its verdict is true
\* exactly when the output of each of these probes holds a 127 marker.
C17_ProbesAdvertisedRolesOnly ==
    \A k \in ReturnedCalls :
        k = FirstCallFor(k) =>
            /\ \A n \in 1..Len(ret[k].probes) :
                   Advertises(ret[k].name, ret[k].probes[n].role)
            /\ ret[k].result <=>
                   \A role \in {"client", "server"} :
                       Advertises(ret[k].name, role) =>
                           \E n \in ProbesOf(k, role) : HasMarker127(ret[k].probes[n].output)

(***************************************************************************)
(* Properties of run() (Spec): order of the runs, failures, reporting      *)
(***************************************************************************)
\* every test and every measurement of the pairs before pair n has its result
PairsBeforeAreOver(n) ==
    \A k \in 1..(n - 1) :
        LET client == _client_server_pairs[k][1]
            server == _client_server_pairs[k][2]
        IN  /\ \A t \in Range(_tests) : test_results[<<server, client, t>>] # Unwritten
            /\ \A m \in Range(_measurements) :
                   measurement_results[<<server, client, m>>] # UnwrittenMeasurement

\* the tests before test m of pair n have their verdicts
TestsBeforeAreOver(n, m) ==
    \A k \in 1..(m - 1) :
        test_results[<<_client_server_pairs[n][2], _client_server_pairs[n][1], _tests[k]>>]
            # Unwritten

\* the measurements before measurement m of pair n have their results
MeasurementsBeforeAreOver(n, m) ==
    \A k \in 1..(m - 1) :
        measurement_results[<<_client_server_pairs[n][2], _client_server_pairs[n][1],
                              _measurements[k]>>] # UnwrittenMeasurement

\* C18: when a test or a measurement of a pair is about to start, every test
\* and measurement of the pairs before it is over; when a measurement is about
\* to start, so is every test of its pair and every measurement before it; and
\* post-processing, printing and export start only when every run of every
\* pair is over.
C18_RunsInOrder ==
    /\ pc = "test" =>
         /\ PairsBeforeAreOver(i)
         /\ TestsBeforeAreOver(i, j)
    /\ pc = "measurement" =>
         /\ PairsBeforeAreOver(i)
         /\ TestsBeforeAreOver(i, Len(_tests) + 1)
         /\ MeasurementsBeforeAreOver(i, j)
    /\ pc \in {"postprocess", "print", "export", "return", "done"} =>
         PairsBeforeAreOver(Len(_client_server_pairs) + 1)

\* the measurement of the second of two pairs is about to repeat, after the
\* test and the measurement of the first pair and the test of the second
C18_Witness ==
    /\ pc = "measurement"
    /\ i = 2
    /\ rep > 1
    /\ _client_server_pairs[1] # _client_server_pairs[2]
    /\ Len(_tests) = 1
    /\ PairsBeforeAreOver(2)
    /\ TestsBeforeAreOver(2, 2)

\* the exceptions that end run() because one run did not go well: a stop that
\* overruns or an output that is None after a timeout, an error raised by
\* check(), certificates that cannot be generated
RunFailureErrors == {"TimeoutExpired", "AttributeError", "Exception", "SystemExit"}

\* C19: run() is never ended by one run that went wrong - by its output, a
\* timeout, a setup error or an error during check - so that the runs after it
\* are still executed.
C19_FailedRunNeverEndsRun ==
    pc = "raised" => raised \notin RunFailureErrors

\* C20: run() is never ended by a cell that post-processing or export reads and
\* that does not exist.
C20_ReportingReadsExistingCells ==
    pc = "raised" => raised # "KeyError"

\* C21: with an empty test list, whatever measurements are selected, run() is
\* not ended by an exception before the report is exported, and it returns 0.
C21_EmptyTestListCompletes ==
    _tests = <<>> =>
        /\ pc # "raised"
        /\ pc = "done" => exit_code = 0

(***************************************************************************)
(* C22: what the verdict of a run depends on                               *)
(***************************************************************************)
\* the invocation captured the output of the container group and returned a
\* verdict
CapturedAndReturned(inp) ==
    /\ inp.cert
    /\ inp.captured
    /\ _run_test(inp).raised = NoException

\* the invocations that capture the same output as the one in call
SameOutput ==
    {inp \in [cert : {TRUE}, expired : BOOLEAN, captured : {TRUE},
              output : {call.output}, stop_overrun : BOOLEAN, check : CheckOutcomes,
              log_dir_exists : BOOLEAN] : CapturedAndReturned(inp)}

\* C22 as stated: two invocations that capture the same output return the same
\* verdict.
C22_VerdictIsFunctionOfOutput ==
    (Returned /\ CapturedAndReturned(call)) =>
        \A other \in SameOutput : _run_test(other).status = ret.status

\* C22: two invocations that capture the same output, agree on whether the run
\* timed out and, when check() is called, on what it returns, return the same
\* verdict.
C22_VerdictIsFunctionOfOutputTimeoutAndCheck ==
    (Returned /\ CapturedAndReturned(call)) =>
        \A other \in SameOutput :
            ( /\ other.expired = call.expired
              /\ CallsCheck(call.expired, call.output) => other.check = call.check )
            => _run_test(other).status = ret.status

\* a run that succeeded, where a run with the same output that timed out
\* failed, and so did one whose check() failed; the runs that differ from it
\* in how the stop would have gone only succeed too
C22_Witness ==
    /\ Returned
    /\ CapturedAndReturned(call)
    /\ ret.status = SUCCEEDED
    /\ \E other \in SameOutput : other.expired /\ _run_test(other).status = FAILED
    /\ \E other \in SameOutput :
          ~other.expired /\ other.check = FAILED /\ _run_test(other).status = FAILED
    /\ \E other \in SameOutput :
          /\ other.expired = call.expired
          /\ other.check = call.check
          /\ other.stop_overrun # call.stop_overrun

(***************************************************************************)
(* C26: log collection and check()                                         *)
(***************************************************************************)
\* the containers whose logs _run_test collects, by the step that does it
CopySteps == {"copy_sim", "copy_client", "copy_server"}

\* C26: in every invocation check() is called at most once, and when it is
\* called the logs of sim, client and server have each been collected, once,
\* before it.
C26_LogsCollectedBeforeCheck ==
    ret # NotRun =>
        /\ Times("check", ret) <= 1
        /\ Did("check", ret) =>
              \A step \in CopySteps :
                  /\ Times(step, ret) = 1
                  /\ Before(step, "check", ret)

\* a run that did not time out, whose client exited with code 0, and whose
\* check() was called and returned a verdict
C26_Witness ==
    /\ Returned
    /\ ~call.expired
    /\ Times("check", ret) = 1
    /\ call.check \in TestResult
    /\ ret.status = call.check
    /\ ret.events[Len(ret.events)] = "return"

(***************************************************************************)
(* The directories of a run                                                *)
(*                                                                         *)
(* SpecLogDirs: a sequence of runs, each the run of a test or one          *)
(* repetition of a measurement. A directory is the number of the           *)
(* tempfile.TemporaryDirectory call that created it, so that every call    *)
(* gives a directory no earlier call gave. ret holds, for each run, the    *)
(* test-case instance and the directories _run_test collected the logs     *)
(* into.                                                                   *)
(***************************************************************************)
MaxRuns == 6

\* getattr(testcase, '_logs_dir', None) when the attribute was never set
NoDir == 0

\* testcases.py 74-83: what the constructor keeps
TestCase(sim_log_dir, client_keylog_file, server_keylog_file, logs_dir) ==
    [_sim_log_dir |-> sim_log_dir,
     _client_keylog_file |-> client_keylog_file,
     _server_keylog_file |-> server_keylog_file,
     _logs_dir |-> logs_dir]

\* lines 658-674: the instance run() builds for a test, after created
\* directories exist; one directory serves sim, client and server
testcase_obj(created) ==
    LET logs_dir == created + 1
    IN  TestCase(logs_dir, <<logs_dir, "keys.log">>, <<logs_dir, "keys.log">>, logs_dir)

\* lines 690-708: the instance measurement_factory builds
measurement_factory(created) ==
    LET sim_log_dir    == created + 1
        client_log_dir == created + 2
        server_log_dir == created + 3
    IN  TestCase(sim_log_dir, <<client_log_dir, "keys.log">>,
                 <<server_log_dir, "keys.log">>, NoDir)

\* the directories the two builders create: logs, www, downloads, certs
CreatedForTest == 4

CreatedForMeasurement == 6

\* lines 406-415: the directories _run_test collects the logs into, and the
\* number of directories it creates for that
LogDirs(testcase, created) ==
    IF testcase._logs_dir # NoDir
    THEN [sim |-> testcase._logs_dir, server |-> testcase._logs_dir,
          client |-> testcase._logs_dir, fresh |-> 0]
    ELSE [sim |-> created + 1, server |-> created + 2, client |-> created + 3, fresh |-> 3]

\* one run: the kind, the instance, the directories of lines 552-560
DirsOfRun(kind, testcase, dirs) ==
    [kind |-> kind, testcase |-> testcase, collected |-> dirs]

RECURSIVE Created(_)
\* the number of directories created by the runs so far
Created(runs) ==
    IF runs = <<>> THEN 0
    ELSE LET last == runs[Len(runs)]
         IN  Created(SubSeq(runs, 1, Len(runs) - 1))
             + (IF last.kind = "test" THEN CreatedForTest ELSE CreatedForMeasurement)
             + last.collected.fresh

InitLogDirs ==
    /\ call = <<>>
    /\ ret = <<>>
    /\ InitRunner(Runner(<<>>, <<<<>>, <<>>>>, {}, FALSE))
    /\ NoDockerRunner

\* lines 654-678: run() builds the instance of a test and runs it
RunTestDirs ==
    /\ Len(ret) < MaxRuns
    /\ LET obj == testcase_obj(Created(ret))
       IN  ret' = Append(ret, DirsOfRun("test", obj,
                                LogDirs(obj, Created(ret) + CreatedForTest)))
    /\ UNCHANGED <<docker_vars, call, runner_vars, run_vars>>

\* lines 616-618: one repetition of a measurement
RunRepetitionDirs ==
    /\ Len(ret) < MaxRuns
    /\ LET obj == measurement_factory(Created(ret))
       IN  ret' = Append(ret, DirsOfRun("measurement", obj,
                                LogDirs(obj, Created(ret) + CreatedForMeasurement)))
    /\ UNCHANGED <<docker_vars, call, runner_vars, run_vars>>

NextLogDirs ==
    \/ RunTestDirs
    \/ RunRepetitionDirs

SpecLogDirs == InitLogDirs /\ [][NextLogDirs]_vars

(***************************************************************************)
(* C27: the logs are collected where the instance looks for them           *)
(***************************************************************************)
\* the logs of run k are collected into the directories its instance was
\* constructed with
CollectedWhereConstructed(k) ==
    /\ ret[k].collected.sim = ret[k].testcase._sim_log_dir
    /\ <<ret[k].collected.client, "keys.log">> = ret[k].testcase._client_keylog_file
    /\ <<ret[k].collected.server, "keys.log">> = ret[k].testcase._server_keylog_file

\* C27: for every run, of a test and of a repetition of a measurement, the
\* directories the sim, client and server logs are collected into are the
\* sim-log directory and the key log directories of the test-case instance.
C27_LogsCollectedWhereConstructed ==
    \A k \in 1..Len(ret) : CollectedWhereConstructed(k)

(***************************************************************************)
(* C28: the opt-out set (Spec)                                             *)
(***************************************************************************)
\* C28 as stated: post-processing changes no cell whose client or whose server
\* is in the opt-out set.
C28_OptOutCellsNeverRewritten ==
    [][ pc = "postprocess" =>
          \A x \in DOMAIN test_results :
              (x[1] \in _no_auto_unsupported \/ x[2] \in _no_auto_unsupported)
                  => test_results'[x] = test_results[x]
      ]_vars

\* C28: neither rule is applied to an implementation of the opt-out set: a
\* cell that post-processing changes is rewritten, with its whole row, by the
\* client rule for its client, which is not in the set, or by the server rule
\* for its server, which is not in the set. A cell whose client and server are
\* both in the set is never changed.
C28_OptOutSkipsOwnRule ==
    [][ pc = "postprocess" =>
          \A x \in DOMAIN test_results :
              test_results'[x] # test_results[x] =>
                  \/ /\ x[2] \notin _no_auto_unsupported
                     /\ Cardinality(PairServers) > 1
                     /\ \A s \in PairServers : test_results'[<<s, x[2], x[3]>>] = UNSUPPORTED
                  \/ /\ x[1] \notin _no_auto_unsupported
                     /\ Cardinality(PairClients) > 1
                     /\ \A c \in PairClients : test_results'[<<x[1], c, x[3]>>] = UNSUPPORTED
      ]_vars

\* post-processing returned for two clients and two servers, one client in the
\* opt-out set: that client failed a test with both servers; its cell with the
\* server that failed the test with both clients is now unsupported, its cell
\* with the other server still holds failed
C28_Witness ==
    /\ pc = "print"
    /\ Cardinality(PairServers) = 2
    /\ Cardinality(PairClients) = 2
    /\ \E c \in PairClients \cap _no_auto_unsupported : \E t \in Range(_tests) :
         /\ \A s \in PairServers :
              \E k \in 1..Len(verdicts) :
                  /\ verdicts[k].client = c /\ verdicts[k].server = s
                  /\ verdicts[k].test = t /\ verdicts[k].status = FAILED
         /\ \E s \in PairServers \ _no_auto_unsupported :
              /\ <<s, c, t>> \in DOMAIN test_results
              /\ test_results[<<s, c, t>>] = UNSUPPORTED
         /\ \E s \in PairServers :
              /\ <<s, c, t>> \in DOMAIN test_results
              /\ test_results[<<s, c, t>>] = FAILED

(***************************************************************************)
(* docker.py: DockerRunner                                                 *)
(*                                                                         *)
(* SpecDocker: containers are added to DockerRunner instances, then run()  *)
(* of one of them, the instance r, is followed through every interleaving  *)
(* of its main thread, the container threads and the timer.                *)
(***************************************************************************)
MaxContainers == 3

\* the instance whose run() is followed, and another instance of the class
Instances == {"r", "other"}

\* lines 83-84: the names given to the containers, by position in the list
Names == <<"client", "server", "sim">>

\* line 17: the entry add_container appends; owner records the instance
\* add_container was called on, which the entry itself does not hold
Container(name, owner) ==
    [name |-> name, container |-> "traptest", env |-> "DURATION", owner |-> owner]

\* lines 34 and 39: notify() wakes the main thread when it waits on the
\* condition and does nothing otherwise
Notify == notified' = (notified \/ docker_pc = "waiting")

\* lines 12-14: no container added, run() not called
InitDocker ==
    /\ call = <<>>
    /\ ret = <<>>
    /\ InitRunner(Runner(<<>>, <<<<>>, <<>>>>, {}, FALSE))
    /\ NoDockerRunner

\* lines 16-17: add_container on an instance appends to the list of the class
add_container(owner) ==
    /\ docker_pc = "idle"
    /\ Len(_containers) < MaxContainers
    /\ _containers' = Append(_containers, Container(Names[Len(_containers) + 1], owner))
    /\ UNCHANGED <<e, threads, timer, docker_pc, notified, launched, stops>>
    /\ UNCHANGED <<call, ret, runner_vars, run_vars>>

\* lines 41-43: r.run() is entered
run ==
    /\ docker_pc = "idle"
    /\ docker_pc' = "loop"
    /\ UNCHANGED <<_containers, e, threads, timer, notified, launched, stops>>
    /\ UNCHANGED <<call, ret, runner_vars, run_vars>>

\* lines 45-58: one iteration of the loop: e is bound to the next entry, a
\* thread is created for run_container and started
StartThread ==
    /\ docker_pc = "loop"
    /\ e < Len(_containers)
    /\ e' = e + 1
    /\ threads' = Append(threads, "started")
    /\ UNCHANGED <<_containers, timer, docker_pc, notified, launched, stops>>
    /\ UNCHANGED <<call, ret, runner_vars, run_vars>>

\* lines 60-61: the loop is over, the timer is started
StartTimer ==
    /\ docker_pc = "loop"
    /\ e = Len(_containers)
    /\ timer' = "armed"
    /\ docker_pc' = "wait"
    /\ UNCHANGED <<_containers, e, threads, notified, launched, stops>>
    /\ UNCHANGED <<call, ret, runner_vars, run_vars>>

\* lines 65-66: the main thread takes the condition and waits on it
Wait ==
    /\ docker_pc = "wait"
    /\ docker_pc' = "waiting"
    /\ UNCHANGED <<_containers, e, threads, timer, notified, launched, stops>>
    /\ UNCHANGED <<call, ret, runner_vars, run_vars>>

\* lines 47-54 and 21-27: thread k runs run_container, which reads e as it is
\* now and starts docker run for that entry
run_container(k) ==
    /\ threads[k] = "started"
    /\ threads' = [threads EXCEPT ![k] = "running"]
    /\ launched' = Append(launched, [thread |-> k, entry |-> e])
    /\ UNCHANGED <<_containers, e, timer, docker_pc, notified, stops>>
    /\ UNCHANGED <<call, ret, runner_vars, run_vars>>

\* lines 28-31: the container process of thread k exits, by itself or because
\* it was stopped, and its output ends
ContainerExits(k) ==
    /\ threads[k] = "running"
    /\ threads' = [threads EXCEPT ![k] = "exited"]
    /\ UNCHANGED <<_containers, e, timer, docker_pc, notified, launched, stops>>
    /\ UNCHANGED <<call, ret, runner_vars, run_vars>>

\* lines 32-34: thread k takes the condition, notifies and ends; the condition
\* is free, the main thread holds it only within StopContainers
_execute(k) ==
    /\ threads[k] = "exited"
    /\ threads' = [threads EXCEPT ![k] = "finished"]
    /\ Notify
    /\ UNCHANGED <<_containers, e, timer, docker_pc, launched, stops>>
    /\ UNCHANGED <<call, ret, runner_vars, run_vars>>

\* lines 36-39: the timer expires
_run_timer ==
    /\ timer = "armed"
    /\ timer' = "fired"
    /\ Notify
    /\ UNCHANGED <<_containers, e, threads, docker_pc, launched, stops>>
    /\ UNCHANGED <<call, ret, runner_vars, run_vars>>

\* lines 66-73: the main thread is woken and, still holding the condition,
\* issues docker stop for the names of all entries
StopContainers ==
    /\ docker_pc = "waiting"
    /\ notified
    /\ notified' = FALSE
    /\ stops' = stops + 1
    /\ docker_pc' = "join"
    /\ UNCHANGED <<_containers, e, threads, timer, launched>>
    /\ UNCHANGED <<call, ret, runner_vars, run_vars>>

\* lines 75-77: every thread is joined, the timer is cancelled, run() returns
Join ==
    /\ docker_pc = "join"
    /\ \A k \in 1..Len(threads) : threads[k] = "finished"
    /\ timer' = IF timer = "armed" THEN "cancelled" ELSE timer
    /\ docker_pc' = "done"
    /\ UNCHANGED <<_containers, e, threads, notified, launched, stops>>
    /\ UNCHANGED <<call, ret, runner_vars, run_vars>>

NextDocker ==
    \/ \E owner \in Instances : add_container(owner)
    \/ run
    \/ StartThread
    \/ StartTimer
    \/ Wait
    \/ \E k \in 1..Len(threads) : run_container(k)
    \/ \E k \in 1..Len(threads) : ContainerExits(k)
    \/ \E k \in 1..Len(threads) : _execute(k)
    \/ _run_timer
    \/ StopContainers
    \/ Join

SpecDocker == InitDocker /\ [][NextDocker]_vars

(***************************************************************************)
(* Properties of DockerRunner.run (SpecDocker)                             *)
(***************************************************************************)
\* some container thread has notified the condition
SomeThreadNotified == \E k \in 1..Len(threads) : threads[k] = "finished"

\* the main thread waits and nothing has woken it
WaitsUnwoken == docker_pc = "waiting" /\ ~notified

\* C25: the stop is issued when the first container process has exited, not
\* only at the next notification: the main thread never waits unwoken after a
\* container thread has notified. The stop is issued at most once, once when
\* run() returns, and run() returns only after every thread has finished.
C25_StopsAtFirstExitOnce ==
    /\ ~(WaitsUnwoken /\ SomeThreadNotified)
    /\ stops <= 1
    /\ docker_pc = "done" =>
          /\ stops = 1
          /\ \A k \in 1..Len(threads) : threads[k] = "finished"

\* C29: run() is never stuck: the main thread never waits unwoken when every
\* container thread has ended and the timer has fired, so that nothing is left
\* to wake it.
C29_NeverWaitsForever ==
    ~( /\ WaitsUnwoken
       /\ timer = "fired"
       /\ \A k \in 1..Len(threads) : threads[k] = "finished" )

\* the entries of the list that were added to the instance r
OwnEntries == {n \in 1..Len(_containers) : _containers[n].owner = "r"}

\* C30: docker run is issued for no entry twice and for no entry added to
\* another instance, and when run() returns it has been issued for every entry
\* added to the instance.
C30_StartsEachOwnContainerOnce ==
    /\ \A a, b \in 1..Len(launched) :
          a # b => launched[a].entry # launched[b].entry
    /\ \A a \in 1..Len(launched) : launched[a].entry \in OwnEntries
    /\ docker_pc = "done" =>
          \A n \in OwnEntries : \E a \in 1..Len(launched) : launched[a].entry = n

====
